---- MODULE Spec2Model ----
(***************************************************************************)
(* State-machine model of sprouttrack-mqtt-exporter.                       *)
(*                                                                         *)
(*   metrics.py   query_metrics, hhmm_since_ms, start_of_day_ms            *)
(*   mqtt.py      SENSORS, mqtt_publish, build_device, publish_discovery   *)
(*   __main__.py  main (startup, do_cycle, --once branch, polling loop)    *)
(*                                                                         *)
(* Python values that may be None are modelled as sequences of length at   *)
(* most one: None is << >> and a value v is <<v>>.  Strings whose          *)
(* characters the code inspects (the FeedLog "side" column, which goes     *)
(* through str.strip and str.upper) are sequences of one-character         *)
(* strings; every other string is a TLA+ string, built with \o where the   *)
(* code builds it with an f-string.                                        *)
(*                                                                         *)
(* Specifications:                                                         *)
(*   Spec           main() from the start of the process.  The call of     *)
(*                  publish_discovery at __main__.py:61-68 does not bind   *)
(*                  (TypeError), so the process ends there; the actions    *)
(*                  of lines 71-105 are unreachable from StartInit         *)
(*                  (StartupNeverCompletes) and are not part of Next.      *)
(*   CycleSpec      do_cycle, the --once branch and the polling loop of    *)
(*                  lines 73-105, started from the state that lines 49-71  *)
(*                  establish when they run to the end; CycleFairSpec      *)
(*                  adds the fairness of the sequential loop.              *)
(*   MetricsSpec    query_metrics on a store that grows row by row.        *)
(*   DiscoverySpec  publish_discovery called for several subjects against  *)
(*                  one broker.                                            *)
(***************************************************************************)
EXTENDS Integers, Sequences, FiniteSets, Bags, TLC

VARIABLES
    feedLog,      \* FeedLog table: bag of rows
    diaperLog,    \* DiaperLog table: bag of rows
    sleepLog,     \* SleepLog table: bag of rows
    now,          \* the wall clock read by now_ms(), epoch milliseconds
    result,       \* what query_metrics returned for this store (None: not called)
    cfg,          \* AppConfig and the --once flag
    engineExtra,  \* keys the engine returns beyond those of metrics.py:186-198
    pc,           \* where main() stands
    exitCode,     \* the process's exit status (None while it runs)
    uncaught,     \* the exception that ended main() (None: none did)
    startupPubs,  \* the publish calls main() made before the first cycle
    will,         \* the last-will registered with the client (None before will_set)
    connected,    \* whether the client's connection to the broker is up
    retained,     \* the broker's retained messages: topic -> payload
    cyclePubs,    \* the publish calls of the latest cycle, in order
    outcome,      \* how the latest cycle ended (None before the first)
    prevOutcome,  \* how the cycle before it ended
    openConns     \* store connections opened and not closed

storeVars == <<feedLog, diaperLog, sleepLog, now, result>>
procVars == <<cfg, engineExtra, pc, exitCode, uncaught, startupPubs, will,
              connected, retained, cyclePubs, outcome, prevOutcome, openConns>>
vars == <<feedLog, diaperLog, sleepLog, now, result, cfg, engineExtra, pc,
          exitCode, uncaught, startupPubs, will, connected, retained, cyclePubs,
          outcome, prevOutcome, openConns>>

----------------------------------------------------------------------------
(* Bounds of the model *)

MaxRows == 2      \* rows in the three tables together
MaxTick == 2      \* row timestamps are 1..MaxTick steps of StepMs
MaxOpenConns == 2 \* store connections left open at a time

----------------------------------------------------------------------------
(* Python's Optional *)

None == << >>
Some(v) == <<v>>
Val(o) == o[1]

----------------------------------------------------------------------------
(* Strings as character sequences: str.strip and str.upper *)

Upper1(c) ==
    CASE c = "l" -> "L" [] c = "e" -> "E" [] c = "f" -> "F" [] c = "t" -> "T"
      [] c = "r" -> "R" [] c = "i" -> "I" [] c = "g" -> "G" [] c = "h" -> "H"
      [] c = "x" -> "X"
      [] OTHER -> c

StrUpper(s) == [i \in DOMAIN s |-> Upper1(s[i])]

RECURSIVE LStrip(_)
LStrip(s) == IF s # << >> /\ Head(s) = " " THEN LStrip(Tail(s)) ELSE s

RECURSIVE RStrip(_)
RStrip(s) ==
    IF s # << >> /\ s[Len(s)] = " " THEN RStrip(SubSeq(s, 1, Len(s) - 1)) ELSE s

StrStrip(s) == RStrip(LStrip(s))

LEFT == <<"L", "E", "F", "T">>
RIGHT == <<"R", "I", "G", "H", "T">>

----------------------------------------------------------------------------
(* Decimal formatting: str(n) and f"{n:02d}" for n >= 0 *)

Digit(d) ==
    CASE d = 0 -> "0" [] d = 1 -> "1" [] d = 2 -> "2" [] d = 3 -> "3"
      [] d = 4 -> "4" [] d = 5 -> "5" [] d = 6 -> "6" [] d = 7 -> "7"
      [] d = 8 -> "8" [] d = 9 -> "9"

RECURSIVE Dec(_)
Dec(n) == IF n < 10 THEN Digit(n) ELSE Dec(n \div 10) \o Digit(n % 10)

Fmt02d(n) == IF n < 10 THEN "0" \o Digit(n) ELSE Dec(n)

HHMM(h, m) == Fmt02d(h) \o ":" \o Fmt02d(m)

----------------------------------------------------------------------------
(* Time *)

MinuteMs == 60000
DayMs == 24 * 60 * MinuteMs
StepMs == 12 * 60 * MinuteMs     \* grid of the row timestamps: 12 hours
TzOffsetMs == 60 * MinuteMs      \* UTC offset of the configured zone (Europe/Berlin)

Instant(k) == k * StepMs
Ticks == 1 .. MaxTick

\* now_ms() values: half a minute past a grid point, one early (so that rows
\* can lie in the future) and one after every row.
NowChoices == {Instant(1) + 30000, Instant(MaxTick + 1) + 30000}

hhmm_since_ms(ms, nowMs) ==
    IF ms = None THEN "00:00"
    ELSE LET delta_min == (nowMs - Val(ms)) \div MinuteMs IN
         IF delta_min <= 0 THEN "00:00"
         ELSE HHMM(delta_min \div 60, delta_min % 60)

\* local midnight of the day that holds nowMs, as epoch milliseconds
start_of_day_ms(nowMs) ==
    ((nowMs + TzOffsetMs) \div DayMs) * DayMs - TzOffsetMs

----------------------------------------------------------------------------
(* The store: FeedLog, DiaperLog and SleepLog rows *)

Subject == "s1"             \* cfg.baby_id of the engine's runs
OtherSubject == "s2"

FeedRow(b, t, ty, sd, del) ==
    [babyId |-> b, time |-> t, type |-> ty, side |-> sd, deletedAt |-> del]

DiaperRow(b, t, del) == [babyId |-> b, time |-> t, deletedAt |-> del]

SleepRow(b, st, en, du, ty, del) ==
    [babyId |-> b, startTime |-> st, endTime |-> en, duration |-> du,
     type |-> ty, deletedAt |-> del]

DeletedAts == {None, Some(Instant(1))}

\* (type, side) of the feed rows drawn: a bottle feed, and breast feeds with no
\* side, a clean side, a side that needs trimming and upper-casing, and a
\* side that is neither LEFT nor RIGHT
FeedKinds ==
    { <<"BOTTLE", None>>,
      <<"BREAST", None>>,
      <<"BREAST", Some(LEFT)>>,
      <<"BREAST", Some(<<" ", "r", "i", "g", "h", "t", " ">>)>>,
      <<"BREAST", Some(<<"x">>)>> }

FeedRows ==
    { FeedRow(Subject, Instant(t), k[1], k[2], d) :
        t \in Ticks, k \in FeedKinds, d \in DeletedAts }
    \cup { FeedRow(OtherSubject, Instant(MaxTick), "BREAST", Some(RIGHT), None) }

DiaperRows ==
    { DiaperRow(Subject, Instant(t), d) : t \in Ticks, d \in DeletedAts }
    \cup { DiaperRow(OtherSubject, Instant(MaxTick), None) }

\* (endTime offset, duration, type) of the sleep rows drawn: open with and
\* without a type label, ended with and without a duration
SleepKinds ==
    { <<None, None, None>>,
      <<None, None, Some("NAP")>>,
      <<Some(0), Some(75), Some("NAP")>>,
      <<Some(0), None, Some("NIGHT_SLEEP")>> }

SleepRows ==
    { SleepRow(Subject, Instant(t),
               IF k[1] = None THEN None ELSE Some(Instant(t) + Val(k[1])),
               k[2], k[3], d) :
        t \in Ticks, k \in SleepKinds, d \in DeletedAts }
    \cup { SleepRow(OtherSubject, Instant(MaxTick), None, None, None, None) }

RowCount == BagCardinality(feedLog) + BagCardinality(diaperLog)
              + BagCardinality(sleepLog)

----------------------------------------------------------------------------
(* SQL helpers *)

\* SELECT COUNT(*): the rows of set S, each counted as often as `table` holds it
RECURSIVE CountRows(_, _)
CountRows(S, table) ==
    IF S = {} THEN 0
    ELSE LET x == CHOOSE y \in S : TRUE IN
         CopiesIn(x, table) + CountRows(S \ {x}, table)

\* sum(int(row["duration"]) for row in cur.fetchall() if row["duration"] is not None)
RECURSIVE SumDuration(_, _)
SumDuration(S, table) ==
    IF S = {} THEN 0
    ELSE LET x == CHOOSE y \in S : TRUE IN
         (IF x.duration = None THEN 0 ELSE Val(x.duration) * CopiesIn(x, table))
           + SumDuration(S \ {x}, table)

RECURSIVE SetMax(_)
SetMax(S) ==
    LET x == CHOOSE y \in S : TRUE IN
    IF S = {x} THEN x
    ELSE LET m == SetMax(S \ {x}) IN IF x > m THEN x ELSE m

\* SELECT time ... ORDER BY time DESC LIMIT 1, then int(r["time"]) or None
MaxTime(rows) == IF rows = {} THEN None ELSE Some(SetMax({ r.time : r \in rows }))

----------------------------------------------------------------------------
(* metrics.py: query_metrics *)

\* mutant of Live: the soft-delete filter left out
LiveNoDeleteFilter(table, baby_id) ==
    { r \in BagToSet(table) : r.babyId = baby_id }

\* WHERE babyId=? AND deletedAt IS NULL
Live(table, baby_id) ==
    { r \in BagToSet(table) : r.babyId = baby_id /\ r.deletedAt = None }

\* the set comprehension of lines 81-87: trimmed, upper-cased non-null sides
SidesOf(rows) ==
    { StrUpper(StrStrip(Val(r.side))) : r \in { q \in rows : q.side # None } }

\* mutant of LastFeedSide: the two-sided test comes after the LEFT test
LastFeedSideLeftFirst(sides) ==
    IF LEFT \in sides THEN Some("LEFT")
    ELSE IF LEFT \in sides /\ RIGHT \in sides THEN Some("BOTH")
    ELSE IF RIGHT \in sides THEN Some("RIGHT")
    ELSE None

LastFeedSide(sides) ==
    IF LEFT \in sides /\ RIGHT \in sides THEN Some("BOTH")
    ELSE IF LEFT \in sides THEN Some("LEFT")
    ELSE IF RIGHT \in sides THEN Some("RIGHT")
    ELSE None

NextFeedSide(last_feed_side) ==
    IF last_feed_side = Some("LEFT") THEN Some("RIGHT")
    ELSE IF last_feed_side = Some("RIGHT") THEN Some("LEFT")
    ELSE IF last_feed_side = Some("BOTH") THEN Some("LEFT")
    ELSE None

\* SELECT startTime, endTime, type ... ORDER BY startTime DESC LIMIT 1: SQL
\* leaves the order of rows with equal startTime open, so any live row with
\* the greatest startTime may be the one returned (None: no live row)
LastSleepChoices(table, baby_id) ==
    LET live == Live(table, baby_id) IN
    IF live = {} THEN {None}
    ELSE { Some(r) : r \in { q \in live :
                               \A o \in live : o.startTime <= q.startTime } }

\* the keys of the returned dict, in the order of the dict literal
MetricKeyOrder ==
    << "time_since_feed", "time_since_diaper", "last_feed_side", "next_feed_side",
       "sleeping", "sleep_state", "time_since_sleep_start", "time_since_sleep_end",
       "feeds_today", "diapers_today", "sleep_today" >>

MetricKeys == { MetricKeyOrder[i] : i \in DOMAIN MetricKeyOrder }

\* query_metrics with r, the row its SleepLog query returned, and nowMs, the
\* clock: the returned mapping, each value wrapped as an Optional
QueryMetrics(feed, diaper, sleep, baby_id, nowMs, r) ==
    LET liveFeed == Live(feed, baby_id)
        last_feed_ms == MaxTime(liveFeed)
        breast == { q \in liveFeed : q.type = "BREAST" }
        last_breast_time_ms == MaxTime(breast)
        sides == IF last_breast_time_ms = None THEN {}
                 ELSE SidesOf({ q \in breast : q.time = Val(last_breast_time_ms) })
        last_feed_side == IF last_breast_time_ms = None THEN None
                          ELSE LastFeedSide(sides)
        next_feed_side == IF last_breast_time_ms = None THEN None
                          ELSE NextFeedSide(last_feed_side)
        liveDiaper == Live(diaper, baby_id)
        last_diaper_ms == MaxTime(liveDiaper)
        last_sleep_start_ms == IF r = None THEN None ELSE Some(Val(r).startTime)
        last_sleep_end_ms == IF r = None THEN None ELSE Val(r).endTime
        last_sleep_type == IF r = None THEN None ELSE Val(r).type
        open == r # None /\ Val(r).endTime = None
        sleep_state == IF open
                       THEN (IF last_sleep_type = None \/ last_sleep_type = Some("")
                             THEN "SLEEPING" ELSE Val(last_sleep_type))
                       ELSE "AWAKE"
        sleeping == IF open THEN "on" ELSE "off"
        sod_ms == start_of_day_ms(nowMs)
        feeds_today == CountRows({ q \in liveFeed : q.time >= sod_ms }, feed)
        diapers_today == CountRows({ q \in liveDiaper : q.time >= sod_ms }, diaper)
        sleep_minutes_today ==
            SumDuration({ q \in Live(sleep, baby_id) : q.startTime >= sod_ms }, sleep)
        sleep_today == HHMM(sleep_minutes_today \div 60, sleep_minutes_today % 60)
    IN [k \in MetricKeys |->
          CASE k = "time_since_feed" -> Some(hhmm_since_ms(last_feed_ms, nowMs))
            [] k = "time_since_diaper" -> Some(hhmm_since_ms(last_diaper_ms, nowMs))
            [] k = "last_feed_side" -> last_feed_side
            [] k = "next_feed_side" -> next_feed_side
            [] k = "sleeping" -> Some(sleeping)
            [] k = "sleep_state" -> Some(sleep_state)
            [] k = "time_since_sleep_start" ->
                 Some(IF sleeping = "on" THEN hhmm_since_ms(last_sleep_start_ms, nowMs)
                      ELSE "00:00")
            [] k = "time_since_sleep_end" ->
                 Some(IF last_sleep_end_ms # None
                      THEN hhmm_since_ms(last_sleep_end_ms, nowMs) ELSE "00:00")
            [] k = "feeds_today" -> Some(feeds_today)
            [] k = "diapers_today" -> Some(diapers_today)
            [] k = "sleep_today" -> Some(sleep_today)]

\* every mapping query_metrics may return on a store
QueryOutcomes(feed, diaper, sleep, baby_id, nowMs) ==
    { QueryMetrics(feed, diaper, sleep, baby_id, nowMs, r) :
        r \in LastSleepChoices(sleep, baby_id) }

----------------------------------------------------------------------------
(* config.py: AppConfig, with the --once flag of parse_args *)

Config(id, name, slug, once) ==
    [baby_id |-> id, baby_name |-> name, baby_slug |-> slug,
     base_topic |-> "sprouttrack", ha_discovery_prefix |-> "homeassistant",
     once |-> once]

DefaultConfig == Config(Subject, "Arthur", "arthur", FALSE)

Configs ==
    { Config(Subject, "Arthur", "arthur", o) : o \in BOOLEAN }
    \cup { Config(OtherSubject, "Ben", "ben", o) : o \in BOOLEAN }

NoMessages == [t \in {} |-> ""]

----------------------------------------------------------------------------
(* The metrics engine on its own: a store that grows row by row, queried *)

StoreInit ==
    /\ feedLog = EmptyBag
    /\ diaperLog = EmptyBag
    /\ sleepLog = EmptyBag
    /\ now \in NowChoices
    /\ result = None
    /\ cfg = DefaultConfig
    /\ engineExtra = {}
    /\ pc = "idle"
    /\ exitCode = None
    /\ uncaught = None
    /\ startupPubs = << >>
    /\ will = None
    /\ connected = FALSE
    /\ retained = NoMessages
    /\ cyclePubs = << >>
    /\ outcome = None
    /\ prevOutcome = None
    /\ openConns = 0

InsertFeed ==
    /\ RowCount < MaxRows
    /\ \E row \in FeedRows : feedLog' = feedLog (+) SetToBag({row})
    /\ result' = None
    /\ UNCHANGED <<diaperLog, sleepLog, now>>
    /\ UNCHANGED procVars

InsertDiaper ==
    /\ RowCount < MaxRows
    /\ \E row \in DiaperRows : diaperLog' = diaperLog (+) SetToBag({row})
    /\ result' = None
    /\ UNCHANGED <<feedLog, sleepLog, now>>
    /\ UNCHANGED procVars

InsertSleep ==
    /\ RowCount < MaxRows
    /\ \E row \in SleepRows : sleepLog' = sleepLog (+) SetToBag({row})
    /\ result' = None
    /\ UNCHANGED <<feedLog, diaperLog, now>>
    /\ UNCHANGED procVars

Query ==
    /\ result = None
    /\ \E m \in QueryOutcomes(feedLog, diaperLog, sleepLog, Subject, now) :
          result' = Some(m)
    /\ UNCHANGED <<feedLog, diaperLog, sleepLog, now>>
    /\ UNCHANGED procVars

StoreNext == InsertFeed \/ InsertDiaper \/ InsertSleep \/ Query

MetricsSpec == StoreInit /\ [][StoreNext]_vars

----------------------------------------------------------------------------
(* mqtt.py: the sensor registry, mqtt_publish, build_device, publish_discovery *)

SensorDef(key, name_suffix, icon) ==
    [key |-> key, name_suffix |-> name_suffix, icon |-> Some(icon),
     device_class |-> None, unit |-> None]

SENSORS ==
    << SensorDef("time_since_feed", "Time Since Feed", "mdi:timer-outline"),
       SensorDef("time_since_diaper", "Time Since Diaper", "mdi:timer-outline"),
       SensorDef("last_feed_side", "Last Feed Side", "mdi:arrow-left-right"),
       SensorDef("next_feed_side", "Next Feed Side", "mdi:arrow-right-bold"),
       SensorDef("sleeping", "Sleeping", "mdi:sleep"),
       SensorDef("sleep_state", "Sleep State", "mdi:sleep"),
       SensorDef("time_since_sleep_start", "Time Since Sleep Start", "mdi:timer-outline"),
       SensorDef("time_since_sleep_end", "Time Since Sleep End", "mdi:timer-outline"),
       SensorDef("feeds_today", "Feeds Today", "mdi:counter"),
       SensorDef("diapers_today", "Diapers Today", "mdi:counter"),
       SensorDef("sleep_today", "Sleep Today", "mdi:clock-outline") >>

\* one client.publish call
Pub(topic, payload, retain) == [topic |-> topic, payload |-> payload, retain |-> retain]

\* the broker after one publish call: at QoS 0 a message reaches the broker
\* only while the connection is up, and a retained one replaces the topic's
\* retained message
Deliver(ret, conn, p) ==
    IF conn /\ p.retain THEN (p.topic :> p.payload) @@ ret ELSE ret

\* the broker after a sequence of publish calls
RECURSIVE DeliverAll(_, _, _)
DeliverAll(ret, conn, pubs) ==
    IF pubs = << >> THEN ret
    ELSE DeliverAll(Deliver(ret, conn, Head(pubs)), conn, Tail(pubs))

build_device ==
    [identifiers |-> <<"sprouttrack_exporter">>,
     name |-> "Sprout Track Test",
     manufacturer |-> "Oak-and-Sprout",
     model |-> "sprout-track (sqlite->mqtt)"]

AvailabilityTopic(base_topic, baby_id) == base_topic \o "/" \o baby_id \o "/availability"

StateTopic(base_topic, baby_id, key) ==
    base_topic \o "/" \o baby_id \o "/sensor/" \o key \o "/state"

ErrorTopic(base_topic, baby_id) == base_topic \o "/" \o baby_id \o "/last_error"

ConfigTopic(discovery_prefix, baby_id, key) ==
    discovery_prefix \o "/sensor/sprouttrack/" \o baby_id \o "_" \o key \o "/config"

\* mutant of DiscoveryDoc: the device block identifies one device per subject
DiscoveryDocDevicePerSubject(s, base_topic, baby_id, baby_name, ha_object_id_prefix) ==
    [name |-> baby_name \o " " \o s.name_suffix,
     unique_id |-> "sprouttrack_" \o baby_id \o "_" \o s.key,
     object_id |-> ha_object_id_prefix \o "_" \o s.key,
     state_topic |-> StateTopic(base_topic, baby_id, s.key),
     availability_topic |-> AvailabilityTopic(base_topic, baby_id),
     device |-> [build_device EXCEPT !.identifiers = <<"sprouttrack_" \o baby_id>>],
     icon |-> s.icon,
     device_class |-> s.device_class,
     unit_of_measurement |-> s.unit]

\* the discovery document of sensor s; an optional field that the code leaves
\* out of the document is None here
DiscoveryDoc(s, base_topic, baby_id, baby_name, ha_object_id_prefix) ==
    [name |-> baby_name \o " " \o s.name_suffix,
     unique_id |-> "sprouttrack_" \o baby_id \o "_" \o s.key,
     object_id |-> ha_object_id_prefix \o "_" \o s.key,
     state_topic |-> StateTopic(base_topic, baby_id, s.key),
     availability_topic |-> AvailabilityTopic(base_topic, baby_id),
     device |-> build_device,
     icon |-> s.icon,
     device_class |-> s.device_class,
     unit_of_measurement |-> s.unit]

\* the publish calls of publish_discovery, one per sensor, in registry order
publish_discovery(discovery_prefix, base_topic, baby_id, baby_name, ha_object_id_prefix) ==
    [i \in DOMAIN SENSORS |->
       Pub(ConfigTopic(discovery_prefix, baby_id, SENSORS[i].key),
           DiscoveryDoc(SENSORS[i], base_topic, baby_id, baby_name, ha_object_id_prefix),
           TRUE)]

----------------------------------------------------------------------------
(* publish_discovery on its own: called for one subject after another      *)
(* against one broker                                                      *)

DiscoveryPrefixes == {"homeassistant", "ha"}
BabyNames == {"Arthur", "Ben"}
ObjectIdPrefixes == {"sprout_track_arthur", "sprout_track_ben"}

DiscoveryInit ==
    /\ feedLog = EmptyBag
    /\ diaperLog = EmptyBag
    /\ sleepLog = EmptyBag
    /\ now = Instant(1)
    /\ result = None
    /\ cfg = DefaultConfig
    /\ engineExtra = {}
    /\ pc = "idle"
    /\ exitCode = None
    /\ uncaught = None
    /\ startupPubs = << >>
    /\ will = None
    /\ connected = TRUE
    /\ retained = NoMessages
    /\ cyclePubs = << >>
    /\ outcome = None
    /\ prevOutcome = None
    /\ openConns = 0

PublishDiscovery ==
    /\ \E dp \in DiscoveryPrefixes, id \in {Subject, OtherSubject},
          name \in BabyNames, op \in ObjectIdPrefixes :
          retained' = DeliverAll(retained, connected,
                                 publish_discovery(dp, "sprouttrack", id, name, op))
    /\ UNCHANGED <<cfg, engineExtra, pc, exitCode, uncaught, startupPubs, will,
                   connected, cyclePubs, outcome, prevOutcome, openConns>>
    /\ UNCHANGED storeVars

DiscoverySpec == DiscoveryInit /\ [][PublishDiscovery]_vars

----------------------------------------------------------------------------
(* __main__.py: main() from the client's creation to the discovery call *)

\* the keywords of the call at lines 61-68
DiscoveryCallKeywords ==
    {"discovery_prefix", "base_topic", "baby_id", "baby_name", "baby_slug"}

\* the keyword-only parameters of publish_discovery, none with a default
DiscoveryParameters ==
    {"discovery_prefix", "base_topic", "baby_id", "baby_name", "ha_object_id_prefix"}

\* Python's binding of a keywords-only call: every keyword names a parameter
\* and every parameter without a default is given; otherwise TypeError
CallBinds(keywords, parameters) ==
    keywords \subseteq parameters /\ parameters \subseteq keywords

\* retained messages left on the broker by earlier runs of the exporter: an
\* availability and a last_error, each possibly absent
EarlierMessages(c) ==
    { a @@ e :
        a \in { NoMessages,
                AvailabilityTopic(c.base_topic, c.baby_id) :> "online",
                AvailabilityTopic(c.base_topic, c.baby_id) :> "offline" },
        e \in { NoMessages,
                ErrorTopic(c.base_topic, c.baby_id) :> "",
                ErrorTopic(c.base_topic, c.baby_id) :> "no such table: FeedLog" } }

StartInit ==
    /\ feedLog = EmptyBag
    /\ diaperLog = EmptyBag
    /\ sleepLog = EmptyBag
    /\ now = Instant(1)
    /\ result = None
    /\ cfg \in Configs
    /\ engineExtra = {}
    /\ pc = "start"
    /\ exitCode = None
    /\ uncaught = None
    /\ startupPubs = << >>
    /\ will = None
    /\ connected = FALSE
    /\ retained \in EarlierMessages(cfg)
    /\ cyclePubs = << >>
    /\ outcome = None
    /\ prevOutcome = None
    /\ openConns = 0

\* lines 50-55: mqtt.Client(...), username_pw_set, will_set
ClientSetup ==
    /\ pc = "start"
    /\ will' = Some(Pub(AvailabilityTopic(cfg.base_topic, cfg.baby_id), "offline", TRUE))
    /\ pc' = "connect"
    /\ UNCHANGED <<cfg, engineExtra, exitCode, uncaught, startupPubs, connected,
                   retained, cyclePubs, outcome, prevOutcome, openConns>>
    /\ UNCHANGED storeVars

\* line 57: client.connect either returns or raises (broker unreachable), and
\* the exception, which nothing catches, ends the process with status 1
Connect ==
    /\ pc = "connect"
    /\ \/ /\ connected' = TRUE
          /\ pc' = "loop_start"
          /\ UNCHANGED <<exitCode, uncaught>>
       \/ /\ pc' = "exit"
          /\ exitCode' = Some(1)
          /\ uncaught' = Some("ConnectionRefusedError")
          /\ UNCHANGED connected
    /\ UNCHANGED <<cfg, engineExtra, startupPubs, will, retained, cyclePubs,
                   outcome, prevOutcome, openConns>>
    /\ UNCHANGED storeVars

\* line 58: client.loop_start()
LoopStart ==
    /\ pc = "loop_start"
    /\ pc' = "discovery"
    /\ UNCHANGED <<cfg, engineExtra, exitCode, uncaught, startupPubs, will,
                   connected, retained, cyclePubs, outcome, prevOutcome, openConns>>
    /\ UNCHANGED storeVars

\* lines 61-68: the call publish_discovery(client, ..., baby_slug=cfg.baby_slug).
\* When the call binds, the documents are published and main goes on to line
\* 71; when it does not, TypeError is raised before the function's body runs
\* and, uncaught, ends the process with status 1.
DiscoveryCall ==
    /\ pc = "discovery"
    /\ IF CallBinds(DiscoveryCallKeywords, DiscoveryParameters)
       THEN LET pubs == publish_discovery(cfg.ha_discovery_prefix, cfg.base_topic,
                                          cfg.baby_id, cfg.baby_name, cfg.baby_slug)
            IN /\ startupPubs' = startupPubs \o pubs
               /\ retained' = DeliverAll(retained, connected, pubs)
               /\ pc' = "online"
               /\ UNCHANGED <<exitCode, uncaught>>
       ELSE /\ pc' = "exit"
            /\ exitCode' = Some(1)
            /\ uncaught' = Some("TypeError")
            /\ UNCHANGED <<startupPubs, retained>>
    /\ UNCHANGED <<cfg, engineExtra, will, connected, cyclePubs, outcome,
                   prevOutcome, openConns>>
    /\ UNCHANGED storeVars

\* the transport: the connection drops without a DISCONNECT (the network, or
\* the process ending with the socket open) and the broker publishes the
\* last-will
ConnectionDrop ==
    /\ connected
    /\ connected' = FALSE
    /\ retained' = IF will = None THEN retained ELSE Deliver(retained, TRUE, Val(will))
    /\ UNCHANGED <<cfg, engineExtra, pc, exitCode, uncaught, startupPubs, will,
                   cyclePubs, outcome, prevOutcome, openConns>>
    /\ UNCHANGED storeVars

\* the transport: the loop_start() thread reconnects; main registers no
\* on_connect callback, so nothing is published on a reconnect
Reconnect ==
    /\ ~connected
    /\ pc \in {"discovery", "online", "cycle", "sleep"}
    /\ connected' = TRUE
    /\ UNCHANGED <<cfg, engineExtra, pc, exitCode, uncaught, startupPubs, will,
                   retained, cyclePubs, outcome, prevOutcome, openConns>>
    /\ UNCHANGED storeVars

Next == ClientSetup \/ Connect \/ LoopStart \/ DiscoveryCall \/ ConnectionDrop \/ Reconnect

Spec == StartInit /\ [][Next]_vars

\* main() never gets past the discovery call: line 71 and the cycles of
\* lines 73-105 are not reached from the start of the process
StartupNeverCompletes ==
    /\ pc \in {"start", "connect", "loop_start", "discovery", "exit"}
    /\ startupPubs = << >>
    /\ cyclePubs = << >>

----------------------------------------------------------------------------
(* __main__.py: do_cycle, the --once branch and the polling loop *)

\* The mapping do_cycle gets from the engine.  query_metrics returns exactly
\* MetricKeys; engineExtra holds the keys of an engine extended beyond the
\* registry (the regression case of the spec's testable properties), so that
\* the filter of lines 76-80 has something to drop.  It is {} for the engine
\* as written.
ExtraKeyOrder == << "weight_kg" >>
ExtraKeys == { ExtraKeyOrder[i] : i \in DOMAIN ExtraKeyOrder }

EngineValues(m, extra) ==
    [k \in DOMAIN m \cup extra |-> IF k \in DOMAIN m THEN m[k] ELSE Some("4.2")]

EngineOrder(extra) ==
    MetricKeyOrder \o SelectSeq(ExtraKeyOrder, LAMBDA k : k \in extra)

\* mutant of Allowed: the guardrail lets every key through
AllowedAnyKey == MetricKeys \cup ExtraKeys

\* line 77: allowed = {s.key for s in SENSORS}
Allowed == { SENSORS[i].key : i \in DOMAIN SENSORS }

\* line 86 and client.publish: "" for None, an int as its decimal text
StatePayload(k, v) ==
    IF v = None THEN ""
    ELSE IF k \in {"feeds_today", "diapers_today"} THEN Dec(Val(v))
    ELSE Val(v)

\* mutant of do_cycle: the error topic is cleared before the states are published
do_cycle_ClearFirst(c, values, order) ==
    LET kept == SelectSeq(order, LAMBDA k : k \in Allowed) IN
    << Pub(ErrorTopic(c.base_topic, c.baby_id), "", TRUE) >>
    \o [i \in DOMAIN kept |->
          Pub(StateTopic(c.base_topic, c.baby_id, kept[i]),
              StatePayload(kept[i], values[kept[i]]), TRUE)]

\* lines 76-90: the publish calls of a cycle whose query returned `values`
\* with its keys in `order`
do_cycle(c, values, order) ==
    LET kept == SelectSeq(order, LAMBDA k : k \in Allowed) IN
    [i \in DOMAIN kept |->
       Pub(StateTopic(c.base_topic, c.baby_id, kept[i]),
           StatePayload(kept[i], values[kept[i]]), TRUE)]
    \o << Pub(ErrorTopic(c.base_topic, c.baby_id), "", TRUE) >>

\* how a query_metrics call can fail: sqlite3.connect raises, and no
\* connection was opened; or a query raises after connect() returned, and
\* line 177, con.close(), is not reached
StoreFailures ==
    { [msg |-> "unable to open database file", opened |-> FALSE],
      [msg |-> "no such table: FeedLog", opened |-> TRUE] }

\* mutant of LoopResume: the failure leaves the loop
LoopResumeCrash(failed) == IF failed THEN "exit" ELSE "sleep"

\* lines 100-105: after the try/except, whichever branch ran, time.sleep
LoopResume(failed) == "sleep"

\* the stores the cycles run on
SampleStores ==
    { [feed |-> EmptyBag, diaper |-> EmptyBag, sleep |-> EmptyBag],
      [feed |-> SetToBag({ FeedRow(Subject, Instant(1), "BREAST", Some(LEFT), None),
                           FeedRow(Subject, Instant(MaxTick), "BOTTLE", None, None) }),
       diaper |-> SetToBag({ DiaperRow(Subject, Instant(1), None) }),
       sleep |-> SetToBag({ SleepRow(Subject, Instant(MaxTick), None, None,
                                     Some("NAP"), None) })] }

\* the publish calls of lines 61-71 as they are written: discovery, then online
StartupPublishes(c) ==
    publish_discovery(c.ha_discovery_prefix, c.base_topic, c.baby_id, c.baby_name,
                      c.baby_slug)
    \o << Pub(AvailabilityTopic(c.base_topic, c.baby_id), "online", TRUE) >>

\* main() at line 73, lines 49-71 having run: the will registered, the client
\* connected, discovery and "online" published
CycleInit ==
    /\ \E st \in SampleStores :
         /\ feedLog = st.feed
         /\ diaperLog = st.diaper
         /\ sleepLog = st.sleep
    /\ now = Instant(MaxTick + 1) + 30000
    /\ result = None
    /\ cfg \in Configs
    /\ engineExtra \in SUBSET ExtraKeys
    /\ pc = "cycle"
    /\ exitCode = None
    /\ uncaught = None
    /\ startupPubs = StartupPublishes(cfg)
    /\ will = Some(Pub(AvailabilityTopic(cfg.base_topic, cfg.baby_id), "offline", TRUE))
    /\ connected = TRUE
    /\ retained = DeliverAll(NoMessages, TRUE, startupPubs)
    /\ cyclePubs = << >>
    /\ outcome = None
    /\ prevOutcome = None
    /\ openConns = 0

\* a cycle whose query_metrics call returned m
CycleSucceeds(m) ==
    /\ cyclePubs' = do_cycle(cfg, EngineValues(m, engineExtra), EngineOrder(engineExtra))
    /\ retained' = DeliverAll(retained, connected, cyclePubs')
    /\ result' = Some(m)
    /\ outcome' = Some([failed |-> FALSE, msg |-> ""])
    /\ prevOutcome' = outcome
    /\ openConns' = openConns

\* a cycle whose query_metrics call raised f: the except branch publishes str(e)
CycleFails(f) ==
    /\ openConns + (IF f.opened THEN 1 ELSE 0) <= MaxOpenConns
    /\ cyclePubs' = << Pub(ErrorTopic(cfg.base_topic, cfg.baby_id), f.msg, TRUE) >>
    /\ retained' = DeliverAll(retained, connected, cyclePubs')
    /\ result' = None
    /\ outcome' = Some([failed |-> TRUE, msg |-> f.msg])
    /\ prevOutcome' = outcome
    /\ openConns' = openConns + (IF f.opened THEN 1 ELSE 0)

\* lines 92-98: --once
CycleOnce ==
    /\ pc = "cycle"
    /\ cfg.once
    /\ \/ /\ \E m \in QueryOutcomes(feedLog, diaperLog, sleepLog, cfg.baby_id, now) :
               CycleSucceeds(m)
          /\ exitCode' = Some(0)
       \/ /\ \E f \in StoreFailures : CycleFails(f)
          /\ exitCode' = Some(2)
    /\ pc' = "exit"
    /\ UNCHANGED <<feedLog, diaperLog, sleepLog, now, cfg, engineExtra, uncaught,
                   startupPubs, will, connected>>

\* lines 100-104: one pass of the loop's try/except
CycleLoop ==
    /\ pc = "cycle"
    /\ ~cfg.once
    /\ \/ \E m \in QueryOutcomes(feedLog, diaperLog, sleepLog, cfg.baby_id, now) :
            CycleSucceeds(m)
       \/ \E f \in StoreFailures : CycleFails(f)
    /\ pc' = LoopResume(Val(outcome').failed)
    /\ UNCHANGED <<feedLog, diaperLog, sleepLog, now, cfg, engineExtra, exitCode,
                   uncaught, startupPubs, will, connected>>

\* line 105: time.sleep(cfg.poll_sec) returns
SleepDone ==
    /\ pc = "sleep"
    /\ pc' = "cycle"
    /\ UNCHANGED <<cfg, engineExtra, exitCode, uncaught, startupPubs, will,
                   connected, retained, cyclePubs, outcome, prevOutcome, openConns>>
    /\ UNCHANGED storeVars

\* the interpreter finalizes the Connection objects of failed calls, which
\* closes them; when it does so is up to the interpreter
Collect ==
    /\ openConns > 0
    /\ openConns' = 0
    /\ UNCHANGED <<cfg, engineExtra, pc, exitCode, uncaught, startupPubs, will,
                   connected, retained, cyclePubs, outcome, prevOutcome>>
    /\ UNCHANGED storeVars

CycleNext ==
    CycleOnce \/ CycleLoop \/ SleepDone \/ ConnectionDrop \/ Reconnect \/ Collect

CycleSpec == CycleInit /\ [][CycleNext]_vars

\* the loop is sequential code and time.sleep returns: a pass that can run
\* does run
CycleFairSpec ==
    CycleInit /\ [][CycleNext]_vars /\ WF_vars(CycleLoop) /\ WF_vars(SleepDone)

----------------------------------------------------------------------------
(* Properties of the metrics engine (MetricsSpec) *)

\* the subject's non-deleted BREAST rows that share the greatest timestamp
LatestBreastRows ==
    LET b == { r \in BagToSet(feedLog) :
                 r.babyId = Subject /\ r.deletedAt = None /\ r.type = "BREAST" }
    IN { r \in b : \A o \in b : o.time <= r.time }

\* their trimmed, upper-cased side values
LatestSides ==
    { StrUpper(StrStrip(Val(r.side))) : r \in { q \in LatestBreastRows : q.side # None } }

NextOf(last) ==
    CASE last = Some("LEFT") -> Some("RIGHT")
      [] last = Some("RIGHT") -> Some("LEFT")
      [] last = Some("BOTH") -> Some("LEFT")
      [] OTHER -> None

\* C3 as stated: last_feed_side is decided by the whole set of side values of
\* the latest BREAST rows: {LEFT} gives LEFT, {RIGHT} gives RIGHT, {LEFT,RIGHT}
\* gives BOTH and every other set, one holding an unrecognized value included,
\* gives null; next_feed_side follows from last_feed_side.
C3_AsStated ==
    result # None =>
      LET m == Val(result)
          expected == CASE LatestSides = {LEFT} -> Some("LEFT")
                        [] LatestSides = {RIGHT} -> Some("RIGHT")
                        [] LatestSides = {LEFT, RIGHT} -> Some("BOTH")
                        [] OTHER -> None
      IN /\ m["last_feed_side"] = expected
         /\ m["next_feed_side"] = NextOf(expected)

\* C3 amended: last_feed_side is decided by which of LEFT and RIGHT occur among
\* the side values of the latest BREAST rows, other values being ignored: both
\* give BOTH, LEFT alone LEFT, RIGHT alone RIGHT, neither null; next_feed_side
\* is RIGHT for LEFT, LEFT for RIGHT and for BOTH, null for null; with no
\* BREAST row both are null.
C3_FeedSide ==
    result # None =>
      LET m == Val(result)
          hasL == LEFT \in LatestSides
          hasR == RIGHT \in LatestSides
          expected == CASE hasL /\ hasR -> Some("BOTH")
                        [] hasL /\ ~hasR -> Some("LEFT")
                        [] hasR /\ ~hasL -> Some("RIGHT")
                        [] OTHER -> None
      IN /\ m["last_feed_side"] = expected
         /\ m["next_feed_side"] = NextOf(expected)
         /\ LatestBreastRows = {} =>
               m["last_feed_side"] = None /\ m["next_feed_side"] = None

\* two latest BREAST rows, one per side, were queried and gave BOTH
C3_Witness ==
    /\ result # None
    /\ Cardinality(LatestBreastRows) = 2
    /\ LatestSides = {LEFT, RIGHT}
    /\ Val(result)["last_feed_side"] = Some("BOTH")
    /\ Val(result)["next_feed_side"] = Some("LEFT")

\* a step that adds one soft-deleted row to one of the three tables
AddsDeletedRow ==
    /\ now' = now
    /\ \/ /\ \E row \in FeedRows : row.deletedAt # None
                                     /\ feedLog' = feedLog (+) SetToBag({row})
          /\ UNCHANGED <<diaperLog, sleepLog>>
       \/ /\ \E row \in DiaperRows : row.deletedAt # None
                                       /\ diaperLog' = diaperLog (+) SetToBag({row})
          /\ UNCHANGED <<feedLog, sleepLog>>
       \/ /\ \E row \in SleepRows : row.deletedAt # None
                                      /\ sleepLog' = sleepLog (+) SetToBag({row})
          /\ UNCHANGED <<feedLog, diaperLog>>

\* C4: adding a soft-deleted row to the feed, diaper or sleep table leaves
\* every value query_metrics can return unchanged.
C4_SoftDeleteIgnored ==
    [][AddsDeletedRow =>
         QueryOutcomes(feedLog', diaperLog', sleepLog', Subject, now')
           = QueryOutcomes(feedLog, diaperLog, sleepLog, Subject, now)]_vars

\* a queried store that holds a live feed row and a deleted feed row newer
\* than it, the query reporting the live row's age
C4_Witness ==
    /\ result # None
    /\ \E d \in BagToSet(feedLog), l \in BagToSet(feedLog) :
          /\ d.babyId = Subject /\ d.deletedAt # None
          /\ l.babyId = Subject /\ l.deletedAt = None
          /\ d.time > l.time
          /\ Val(result)["time_since_feed"] = Some(hhmm_since_ms(Some(l.time), now))
          /\ Val(result)["time_since_feed"] # Some(hhmm_since_ms(Some(d.time), now))

----------------------------------------------------------------------------
(* Properties of the discovery documents (DiscoverySpec) *)

\* the retained discovery documents of subject id: topic D/sensor/sprouttrack/id_K/config
DocTopicsOf(id) ==
    { t \in DOMAIN retained :
        \E dp \in DiscoveryPrefixes, i \in DOMAIN SENSORS :
          t = ConfigTopic(dp, id, SENSORS[i].key) }

\* C9 as stated: the documents of one subject carry one device identifier, and
\* the documents of two distinct subjects carry different device identifiers.
C9_AsStated ==
    /\ \A id \in {Subject, OtherSubject} :
         \A t1 \in DocTopicsOf(id), t2 \in DocTopicsOf(id) :
           retained[t1].device.identifiers = retained[t2].device.identifiers
    /\ \A t1 \in DocTopicsOf(Subject), t2 \in DocTopicsOf(OtherSubject) :
         retained[t1].device.identifiers # retained[t2].device.identifiers

\* C9 amended: the device block denotes one logical device for the whole
\* integration, with the fixed identifier "sprouttrack_exporter": every
\* document, of whichever subject, carries the same device block, so documents
\* of two distinct subjects carry the same identifier.
C9_OneDeviceForAll ==
    \A t1 \in DocTopicsOf(Subject) \cup DocTopicsOf(OtherSubject),
       t2 \in DocTopicsOf(Subject) \cup DocTopicsOf(OtherSubject) :
      /\ retained[t1].device = retained[t2].device
      /\ retained[t1].device.identifiers = <<"sprouttrack_exporter">>

\* documents of both subjects are retained, one per sensor and subject
C9_Witness ==
    /\ \E dp \in DiscoveryPrefixes :
         \A i \in DOMAIN SENSORS :
           ConfigTopic(dp, Subject, SENSORS[i].key) \in DOMAIN retained
    /\ \E t1 \in DocTopicsOf(Subject), t2 \in DocTopicsOf(OtherSubject) :
         /\ retained[t1].unique_id # retained[t2].unique_id
         /\ retained[t1].state_topic # retained[t2].state_topic
         /\ retained[t1].device.identifiers = retained[t2].device.identifiers

----------------------------------------------------------------------------
(* Properties of the poll cycle (CycleSpec, CycleFairSpec) *)

ErrorTopicNow == ErrorTopic(cfg.base_topic, cfg.baby_id)

RegistryStateTopics ==
    { StateTopic(cfg.base_topic, cfg.baby_id, SENSORS[i].key) : i \in DOMAIN SENSORS }

PublishedTopics == { cyclePubs[i].topic : i \in DOMAIN cyclePubs }

Failed(o) == o # None /\ Val(o).failed
Succeeded(o) == o # None /\ ~Val(o).failed

\* C1: a cycle whose store read failed published the failure's message,
\* retained, on the error topic and published no state topic; a cycle that
\* succeeded published the empty string on the error topic, retained, after
\* all of its state publishes.
C1_StoreFailureReported ==
    /\ Failed(outcome) =>
         /\ cyclePubs = << Pub(ErrorTopicNow, Val(outcome).msg, TRUE) >>
         /\ Val(outcome).msg \in { f.msg : f \in StoreFailures }
         /\ PublishedTopics \cap RegistryStateTopics = {}
    /\ Succeeded(outcome) =>
         /\ cyclePubs[Len(cyclePubs)] = Pub(ErrorTopicNow, "", TRUE)
         /\ \A i \in 1 .. Len(cyclePubs) - 1 :
              cyclePubs[i].topic \in RegistryStateTopics /\ cyclePubs[i].retain
         /\ RegistryStateTopics \subseteq PublishedTopics

\* a cycle succeeded right after one that failed, and cleared the error topic
C1_Witness ==
    /\ Failed(prevOutcome)
    /\ Succeeded(outcome)
    /\ Len(cyclePubs) = Len(SENSORS) + 1
    /\ connected => retained[ErrorTopicNow] = ""

\* C2: no cycle publishes a state topic for a key outside the SENSORS registry:
\* a key the engine computes that the registry does not declare is on no
\* publish call and on no retained topic.
C2_OnlyRegisteredKeys ==
    /\ PublishedTopics \subseteq RegistryStateTopics \cup {ErrorTopicNow}
    /\ \A k \in engineExtra \ { SENSORS[i].key : i \in DOMAIN SENSORS } :
         /\ StateTopic(cfg.base_topic, cfg.baby_id, k) \notin PublishedTopics
         /\ StateTopic(cfg.base_topic, cfg.baby_id, k) \notin DOMAIN retained

\* a cycle succeeded on an engine that computed an unregistered key
C2_Witness ==
    /\ engineExtra # {}
    /\ Succeeded(outcome)
    /\ Len(cyclePubs) = Len(SENSORS) + 1

\* C5: in continuous mode the process never exits, a failed cycle has
\* published the failure's message on the error topic, and after a failed
\* cycle the next cycle begins.
C5_LoopSurvivesFailure ==
    /\ [](~cfg.once => pc # "exit")
    /\ []((~cfg.once /\ Failed(outcome)) =>
            cyclePubs = << Pub(ErrorTopicNow, Val(outcome).msg, TRUE) >>)
    /\ ((~cfg.once /\ pc = "sleep" /\ Failed(outcome)) ~> (pc = "cycle"))

\* in continuous mode a cycle is about to begin after one that failed
C5_Witness == ~cfg.once /\ pc = "cycle" /\ Failed(outcome)

\* C8 as stated: at the end of a cycle, however query_metrics ended, no store
\* connection is open.
C8_AsStated == pc \in {"sleep", "exit"} => openConns = 0

\* C10 as stated: a cycle that publishes its state topics while the exporter
\* is connected leaves the retained availability at "online".
C10_AsStated ==
    [][(pc = "cycle" /\ pc' # "cycle" /\ connected /\ Succeeded(outcome'))
         => retained'[AvailabilityTopic(cfg.base_topic, cfg.baby_id)] = "online"]_vars

----------------------------------------------------------------------------
(* Properties of the process from its start (Spec) *)

\* C6 as stated: a --once process that connected ends after exactly one cycle,
\* with exit code 0 if the cycle succeeded and 2 if it failed.
C6_AsStated ==
    (cfg.once /\ pc = "exit" /\ uncaught # Some("ConnectionRefusedError")) =>
      /\ outcome # None
      /\ exitCode = Some(IF Failed(outcome) THEN 2 ELSE 0)

\* C7 as stated: the will is registered before the client connects, and a
\* process that connected has published one retained discovery document per
\* registered sensor and then "online", retained, before its first cycle and
\* before it ends.
C7_AsStated ==
    /\ connected => will # None
    /\ (pc = "exit" /\ uncaught # Some("ConnectionRefusedError")) =>
         startupPubs = StartupPublishes(cfg)
    /\ cyclePubs # << >> => startupPubs = StartupPublishes(cfg)

====
